---- MODULE Spec2Model ----
(***************************************************************************)
(* The POST /generate handler of src/main.py: one request runs the chain   *)
(* validate -> scrape_website -> first generate_content (findings) ->      *)
(* analyze_threat_level (second generate_content) -> JSON response.        *)
(*                                                                         *)
(* A Python str is a sequence of one-character strings, so that            *)
(* startswith, strip, lower, "in" and + are computed and not assumed.      *)
(* A Python value that may be None, a str or an int is the record          *)
(* [type, str, int].  The replies of the three outbound calls are inputs.  *)
(***************************************************************************)
EXTENDS Integers, Sequences, FiniteSets, TLC

VARIABLES
    pc,               \* position of the handler: idle, scraping, generating, assessing, done
    request,          \* <<>> before the request arrives, then <<body>>
    url,              \* the local `url` of generate_text (after line 118)
    website_content,  \* the local `website_content` (line 121)
    generated_code,   \* the local `generated_code` (lines 167-173)
    calls,            \* the outbound calls issued so far, in order
    scrape_reply,     \* <<>> or <<what requests.get / prettify did>>
    gen_reply,        \* <<>> or <<what the first generate_content did>>
    assess_reply,     \* <<>> or <<what the second generate_content did>>
    responses         \* the HTTP responses returned for the request

vars == <<pc, request, url, website_content, generated_code, calls,
          scrape_reply, gen_reply, assess_reply, responses>>

----------------------------------------------------------------------------
\* Bounds of the inputs.

MaxParts == 2
MaxRatings == 2
MaxCandidates == 1

\* website_content[:5000]
ContentLimit == 5000

----------------------------------------------------------------------------
\* Python values and str operations.

NoneVal == [type |-> "none", str |-> <<>>, int |-> 0]
Str(s) == [type |-> "str", str |-> s, int |-> 0]
Num(n) == [type |-> "int", str |-> <<>>, int |-> n]

\* Python truth value of None, a str or an int.
Truthy(v) ==
    CASE v.type = "none" -> FALSE
      [] v.type = "str" -> Len(v.str) > 0
      [] v.type = "int" -> v.int # 0

Whitespace == {" ", "\n", "\t"}

\* not s.strip()
IsBlank(s) == \A i \in 1..Len(s) : s[i] \in Whitespace

UpperChars == <<"A","B","C","D","E","F","G","H","I","J","K","L","M","N","O","P","Q","R","S","T","U","V","W","X","Y","Z">>
LowerChars == <<"a","b","c","d","e","f","g","h","i","j","k","l","m","n","o","p","q","r","s","t","u","v","w","x","y","z">>

LowerChar(c) ==
    IF \E i \in 1..Len(UpperChars) : UpperChars[i] = c
    THEN LowerChars[CHOOSE i \in 1..Len(UpperChars) : UpperChars[i] = c]
    ELSE c

\* s.lower()
Lower(s) == [i \in 1..Len(s) |-> LowerChar(s[i])]

\* s.startswith(p)
StartsWith(s, p) == Len(s) >= Len(p) /\ SubSeq(s, 1, Len(p)) = p

\* p in s
Contains(s, p) == \E i \in 0..(Len(s) - Len(p)) : SubSeq(s, i + 1, i + Len(p)) = p

\* s[:n]
Prefix(s, n) == SubSeq(s, 1, IF Len(s) < n THEN Len(s) ELSE n)

\* the sequences over S of length at most n
SeqsUpTo(S, n) == UNION {[1..k -> S] : k \in 0..n}

RECURSIVE Concat(_)
\* generated_code = ""; for part in parts: generated_code += part.text
Concat(parts) ==
    IF parts = <<>> THEN <<>> ELSE Head(parts) \o Concat(Tail(parts))

----------------------------------------------------------------------------
\* String literals of src/main.py.

HTTP_PREFIX == <<"h","t","t","p",":","/","/">>
HTTPS_PREFIX == <<"h","t","t","p","s",":","/","/">>
DEFAULT_VULNERABILITY == <<"C","r","o","s","s","-","S","i","t","e"," ","S","c","r","i","p","t","i","n","g"," ","(","X","S","S",")">>
DEFAULT_MODEL == <<"g","e","m","i","n","i","-","1",".","5","-","f","l","a","s","h">>
ERR_MISSING_URL == <<"M","i","s","s","i","n","g"," ","\\","\"","u","r","l","\\","\""," ","i","n"," ","r","e","q","u","e","s","t"," ","b","o","d","y">>
ERR_SCRAPE == <<"F","a","i","l","e","d"," ","t","o"," ","s","c","r","a","p","e"," ","w","e","b","s","i","t","e"," ","c","o","n","t","e","n","t">>
ERR_GENERATE == <<"F","a","i","l","e","d"," ","t","o"," ","g","e","n","e","r","a","t","e"," ","c","o","n","t","e","n","t">>
ERR_NO_CANDIDATES == <<"N","o"," ","c","a","n","d","i","d","a","t","e","s"," ","r","e","t","u","r","n","e","d"," ","f","r","o","m"," ","t","h","e"," ","m","o","d","e","l">>
ERR_BLOCKED == <<"R","e","s","p","o","n","s","e"," ","w","a","s"," ","b","l","o","c","k","e","d"," ","d","u","e"," ","t","o"," ","s","a","f","e","t","y"," ","r","a","t","i","n","g","s">>
ERR_EMPTY == <<"G","e","n","e","r","a","t","e","d"," ","c","o","d","e"," ","i","s"," ","e","m","p","t","y">>
UNABLE == <<"U","n","a","b","l","e"," ","t","o"," ","d","e","t","e","r","m","i","n","e"," ","t","h","r","e","a","t"," ","l","e","v","e","l">>
NO_ANALYSIS == <<"N","o"," ","d","e","t","a","i","l","e","d"," ","a","n","a","l","y","s","i","s"," ","a","v","a","i","l","a","b","l","e">>
ERROR_LABEL == <<"E","r","r","o","r">>
HIGH == <<"H","i","g","h">>
LOW == <<"L","o","w">>
MEDIUM == <<"M","e","d","i","u","m">>
HIGH_RISK == <<"h","i","g","h"," ","r","i","s","k">>
LOW_RISK == <<"l","o","w"," ","r","i","s","k">>
NO_OUTPUT == <<"N","o"," ","o","u","t","p","u","t">>
NO_CONTENT == <<"N","o"," ","c","o","n","t","e","n","t"," ","t","o"," ","a","n","a","l","y","z","e">>
NOT_AVAILABLE == <<"N","/","A">>

\* str(e) of the exceptions the handler's outer `except Exception` catches.
EXC_BAD_JSON == <<"4","0","0"," ","B","a","d"," ","R","e","q","u","e","s","t",":"," ","F","a","i","l","e","d"," ","t","o"," ","d","e","c","o","d","e"," ","J","S","O","N"," ","o","b","j","e","c","t">>
EXC_NONE_GET == <<"'","N","o","n","e","T","y","p","e","'"," ","o","b","j","e","c","t"," ","h","a","s"," ","n","o"," ","a","t","t","r","i","b","u","t","e"," ","'","g","e","t","'">>
EXC_INT_STARTSWITH == <<"'","i","n","t","'"," ","o","b","j","e","c","t"," ","h","a","s"," ","n","o"," ","a","t","t","r","i","b","u","t","e"," ","'","s","t","a","r","t","s","w","i","t","h","'">>
EXC_NO_TEXT == <<"o","b","j","e","c","t"," ","h","a","s"," ","n","o"," ","a","t","t","r","i","b","u","t","e"," ","'","t","e","x","t","'">>

----------------------------------------------------------------------------
\* Inputs: request bodies and the replies of the outbound calls.

UrlStrings ==
    { <<>>, <<"a",".","i","o">>, <<"h","t","t","p",":","/","/","a",".","i","o">>, <<"h","t","t","p","s",":","/","/","a",".","i","o">>,
      <<"h","t","t","p",":","/","a",".","i","o">>, <<"H","T","T","P",":","/","/","a",".","i","o">>, <<"h","t","t","p","x">> }

\* data.get('url'): the field absent, JSON null, a string, or a number
UrlFields ==
    {[present |-> FALSE, value |-> NoneVal], [present |-> TRUE, value |-> NoneVal]}
    \cup {[present |-> TRUE, value |-> Str(s)] : s \in UrlStrings}
    \cup {[present |-> TRUE, value |-> Num(n)] : n \in {0, 7}}

\* the optional fields: all absent (the defaults apply) or all given
Options ==
    { [vulnerability |-> DEFAULT_VULNERABILITY, model |-> DEFAULT_MODEL,
       parameters |-> <<>>],
      [vulnerability |-> <<"S","Q","L","i">>, model |-> <<"g","e","m","i","n","i","-","p","r","o">>,
       parameters |-> <<"temperature">>] }

\* kind "invalid": request.get_json() raises; "null": it returns None;
\* "object": it returns a dict
Bodies ==
    { [kind |-> k, url |-> [present |-> FALSE, value |-> NoneVal],
       vulnerability |-> DEFAULT_VULNERABILITY, model |-> DEFAULT_MODEL,
       parameters |-> <<>>] : k \in {"invalid", "null"} }
    \cup
    { [kind |-> "object", url |-> u, vulnerability |-> o.vulnerability,
       model |-> o.model, parameters |-> o.parameters] :
         u \in UrlFields, o \in Options }

\* requests.get raises a RequestException (or raise_for_status does), or
\* soup.prettify() returns the text
ScrapeReplies ==
    {[kind |-> "RequestException", text |-> <<>>]}
    \cup {[kind |-> "ok", text |-> t] : t \in { <<>>, <<"<","p",">","\n"," ","h","i","\n","<","/","p",">">> }}

Fragments == { <<" ">>, <<"h","i","g","h"," ">>, <<"r","i","s","k">> }

\* candidate.content: no such attribute; an object with parts; an object
\* with text and no parts; an object with neither
Contents ==
    {[kind |-> "absent", parts |-> <<>>, text |-> <<>>],
     [kind |-> "opaque", parts |-> <<>>, text |-> <<>>]}
    \cup {[kind |-> "parts", parts |-> p, text |-> <<>>] :
            p \in SeqsUpTo(Fragments, MaxParts)}
    \cup {[kind |-> "text", parts |-> <<>>, text |-> t] :
            t \in { <<"\n">>, <<"X","S","S",":"," ","H","I","G","H"," ","R","I","S","K">> }}

Candidates ==
    [safety_ratings : SeqsUpTo(BOOLEAN, MaxRatings), content : Contents]

\* a candidate after the top one: the handler never reads it
OtherCandidate ==
    [safety_ratings |-> <<TRUE>>,
     content |-> [kind |-> "absent", parts |-> <<>>, text |-> <<>>]]

CandidateLists ==
    {<<>>} \cup
    {<<c>> \o [i \in 1..k |-> OtherCandidate] :
        c \in Candidates, k \in 0..(MaxCandidates - 1)}

\* the first generate_content raises, or returns a response
GenReplies ==
    {[kind |-> "raise", candidates |-> <<>>]}
    \cup {[kind |-> "response", candidates |-> cs] : cs \in CandidateLists}

AssessTexts ==
    { <<>>, <<" ">>, <<"H","I","G","H"," ","R","I","S","K">>, <<"a"," ","L","o","w"," ","R","i","s","k">>, <<"l","o","w"," ","r","i","s","k",","," ","H","i","g","h"," ","r","i","s","k">>,
      <<"m","e","d","i","u","m"," ","r","i","s","k">>, <<"h","i","g","h","r","i","s","k">> }

\* the second generate_content raises with str(e) = message, or returns a
\* response whose top candidate's content has a text attribute or has none
AssessReplies ==
    {[kind |-> "raise", message |-> m, ncandidates |-> 0, hastext |-> FALSE,
      text |-> <<>>] : m \in { <<>>, <<"4","2","9"," ","q","u","o","t","a">> }}
    \cup {[kind |-> "response", message |-> <<>>, ncandidates |-> 0,
           hastext |-> FALSE, text |-> <<>>]}
    \cup {[kind |-> "response", message |-> <<>>, ncandidates |-> n,
           hastext |-> FALSE, text |-> <<>>] : n \in 1..MaxCandidates}
    \cup {[kind |-> "response", message |-> <<>>, ncandidates |-> n,
           hastext |-> TRUE, text |-> t] :
            n \in 1..MaxCandidates, t \in AssessTexts}

----------------------------------------------------------------------------
\* The handler's decisions, in the order of the code.

\* the status left out of the return: jsonify alone answers 200
ErrorResponse_NoStatus(status, message) ==
    [status |-> 200, body |-> [error |-> message]]

\* jsonify({'error': message}), status
ErrorResponse(status, message) ==
    [status |-> status, body |-> [error |-> message]]

\* the test written as `if url is None`
MissingUrl_IsNone(u) == u.type = "none"

\* line 113: if not url
MissingUrl(u) == ~Truthy(u)

\* only the http:// prefix tested
NormalizeUrl_HttpOnly(s) ==
    IF ~StartsWith(s, HTTP_PREFIX) THEN HTTP_PREFIX \o s ELSE s

\* lines 117-118
NormalizeUrl(s) ==
    IF ~StartsWith(s, HTTP_PREFIX) /\ ~StartsWith(s, HTTPS_PREFIX)
    THEN HTTP_PREFIX \o s
    ELSE s

\* scrape_website: None on a RequestException, else soup.prettify()
scrape_website(reply) ==
    IF reply.kind = "RequestException" THEN NoneVal ELSE Str(reply.text)

\* the test written as `if website_content == ""`
ScrapeFailed_EmptyOnly(content) == content.type = "str" /\ Len(content.str) = 0

\* line 122: if not website_content
ScrapeFailed(content) == ~Truthy(content)

\* lines 123-124: the response to a scrape that gave nothing
ScrapeFailureResponse == ErrorResponse(500, ERR_SCRAPE)

\* lines 129-134
BuildPrompt(vulnerability, u, content) ==
    [vulnerability |-> vulnerability, url |-> u,
     content |-> Prefix(content, ContentLimit)]

\* line 162
Blocked(candidate) ==
    Len(candidate.safety_ratings) > 0
    /\ \E i \in 1..Len(candidate.safety_ratings) : candidate.safety_ratings[i]

\* lines 167-173, for a content that does not raise
ExtractText(content) ==
    CASE content.kind = "absent" -> <<>>
      [] content.kind = "parts" -> Concat(content.parts)
      [] content.kind = "text" -> content.text
      [] OTHER -> <<>>

\* the safety-ratings test left out
FirstCall_NoBlockedCheck(reply) ==
    IF reply.kind = "raise"
    THEN [failed |-> TRUE, response |-> ErrorResponse(500, ERR_GENERATE), code |-> <<>>]
    ELSE IF Len(reply.candidates) = 0
    THEN [failed |-> TRUE, response |-> ErrorResponse(500, ERR_NO_CANDIDATES), code |-> <<>>]
    ELSE IF reply.candidates[1].content.kind = "opaque"
    THEN [failed |-> TRUE, response |-> ErrorResponse(500, EXC_NO_TEXT), code |-> <<>>]
    ELSE IF IsBlank(ExtractText(reply.candidates[1].content))
    THEN [failed |-> TRUE, response |-> ErrorResponse(500, ERR_EMPTY), code |-> <<>>]
    ELSE [failed |-> FALSE, response |-> ErrorResponse(500, <<>>),
          code |-> ExtractText(reply.candidates[1].content)]

\* the emptiness test without strip()
FirstCall_NoStrip(reply) ==
    IF reply.kind = "raise"
    THEN [failed |-> TRUE, response |-> ErrorResponse(500, ERR_GENERATE), code |-> <<>>]
    ELSE IF Len(reply.candidates) = 0
    THEN [failed |-> TRUE, response |-> ErrorResponse(500, ERR_NO_CANDIDATES), code |-> <<>>]
    ELSE IF Blocked(reply.candidates[1])
    THEN [failed |-> TRUE, response |-> ErrorResponse(500, ERR_BLOCKED), code |-> <<>>]
    ELSE IF reply.candidates[1].content.kind = "opaque"
    THEN [failed |-> TRUE, response |-> ErrorResponse(500, EXC_NO_TEXT), code |-> <<>>]
    ELSE IF Len(ExtractText(reply.candidates[1].content)) = 0
    THEN [failed |-> TRUE, response |-> ErrorResponse(500, ERR_EMPTY), code |-> <<>>]
    ELSE [failed |-> FALSE, response |-> ErrorResponse(500, <<>>),
          code |-> ExtractText(reply.candidates[1].content)]

\* lines 147-177: what the handler does with the reply of the first
\* generate_content: an error response, or the findings text
FirstCall(reply) ==
    IF reply.kind = "raise"
    THEN [failed |-> TRUE, response |-> ErrorResponse(500, ERR_GENERATE), code |-> <<>>]
    ELSE IF Len(reply.candidates) = 0
    THEN [failed |-> TRUE, response |-> ErrorResponse(500, ERR_NO_CANDIDATES), code |-> <<>>]
    ELSE IF Blocked(reply.candidates[1])
    THEN [failed |-> TRUE, response |-> ErrorResponse(500, ERR_BLOCKED), code |-> <<>>]
    ELSE IF reply.candidates[1].content.kind = "opaque"
    THEN [failed |-> TRUE, response |-> ErrorResponse(500, EXC_NO_TEXT), code |-> <<>>]
    ELSE IF IsBlank(ExtractText(reply.candidates[1].content))
    THEN [failed |-> TRUE, response |-> ErrorResponse(500, ERR_EMPTY), code |-> <<>>]
    ELSE [failed |-> FALSE, response |-> ErrorResponse(500, <<>>),
          code |-> ExtractText(reply.candidates[1].content)]

\* the two tests in the other order
ThreatLevel_LowFirst(analysis_text) ==
    IF Contains(Lower(analysis_text), LOW_RISK) THEN LOW
    ELSE IF Contains(Lower(analysis_text), HIGH_RISK) THEN HIGH
    ELSE MEDIUM

\* line 69
ThreatLevel(analysis_text) ==
    IF Contains(Lower(analysis_text), HIGH_RISK) THEN HIGH
    ELSE IF Contains(Lower(analysis_text), LOW_RISK) THEN LOW
    ELSE MEDIUM

\* line 33: analyze_threat_level issues its call only for a truthy content
AssessmentIssued(content) == Len(content) > 0

\* the except branch returning the sentinel pair of the other failures
analyze_threat_level_Sentinel(reply) ==
    IF reply.kind = "raise" THEN <<UNABLE, NO_ANALYSIS>>
    ELSE IF reply.ncandidates = 0 THEN <<UNABLE, NO_ANALYSIS>>
    ELSE LET analysis_text == IF reply.hastext THEN reply.text ELSE <<>>
         IN  IF IsBlank(analysis_text) THEN <<UNABLE, NO_ANALYSIS>>
             ELSE <<ThreatLevel(analysis_text), analysis_text>>

\* lines 54-77: the pair analyze_threat_level returns for the reply of the
\* second generate_content
analyze_threat_level(reply) ==
    IF reply.kind = "raise" THEN <<ERROR_LABEL, reply.message>>
    ELSE IF reply.ncandidates = 0 THEN <<UNABLE, NO_ANALYSIS>>
    ELSE LET analysis_text == IF reply.hastext THEN reply.text ELSE <<>>
         IN  IF IsBlank(analysis_text) THEN <<UNABLE, NO_ANALYSIS>>
             ELSE <<ThreatLevel(analysis_text), analysis_text>>

\* x or default
Or(x, default) == IF Len(x) > 0 THEN x ELSE default

\* lines 184-190
ComposeResult(code, pair) ==
    [status |-> 200,
     body |-> [text |-> Or(code, NO_OUTPUT),
               analysis |-> Or(pair[2], NO_CONTENT),
               threat_level |-> Or(pair[1], NOT_AVAILABLE)]]

----------------------------------------------------------------------------
\* The state machine of one request.

Init ==
    /\ pc = "idle"
    /\ request = <<>>
    /\ url = NoneVal
    /\ website_content = NoneVal
    /\ generated_code = <<>>
    /\ calls = <<>>
    /\ scrape_reply = <<>>
    /\ gen_reply = <<>>
    /\ assess_reply = <<>>
    /\ responses = <<>>

\* the handler answers and returns
Respond(r) ==
    /\ responses' = Append(responses, r)
    /\ pc' = "done"

\* lines 104-121: the request arrives; the body is parsed and validated,
\* the url normalised and the page fetch issued
HandleRequest(body) ==
    /\ pc = "idle"
    /\ request' = <<body>>
    /\ UNCHANGED <<website_content, generated_code, scrape_reply, gen_reply, assess_reply>>
    /\ IF body.kind = "invalid"
       THEN Respond(ErrorResponse(500, EXC_BAD_JSON)) /\ UNCHANGED <<url, calls>>
       ELSE IF body.kind = "null"
       THEN Respond(ErrorResponse(500, EXC_NONE_GET)) /\ UNCHANGED <<url, calls>>
       ELSE IF MissingUrl(body.url.value)
       THEN /\ Respond(ErrorResponse(400, ERR_MISSING_URL))
            /\ url' = body.url.value
            /\ UNCHANGED calls
       ELSE IF body.url.value.type # "str"
       THEN /\ Respond(ErrorResponse(500, EXC_INT_STARTSWITH))
            /\ url' = body.url.value
            /\ UNCHANGED calls
       ELSE /\ url' = Str(NormalizeUrl(body.url.value.str))
            /\ calls' = Append(calls, [call |-> "fetch", url |-> url'.str])
            /\ pc' = "scraping"
            /\ UNCHANGED responses

\* lines 121-148: requests.get returns or raises; on content the prompt is
\* built and the first generate_content issued
ScrapeReturn(reply) ==
    /\ pc = "scraping"
    /\ scrape_reply' = <<reply>>
    /\ website_content' = scrape_website(reply)
    /\ UNCHANGED <<request, url, generated_code, gen_reply, assess_reply>>
    /\ IF ScrapeFailed(website_content')
       THEN Respond(ScrapeFailureResponse) /\ UNCHANGED calls
       ELSE /\ calls' = Append(calls,
                 [call |-> "findings", model |-> request[1].model,
                  parameters |-> request[1].parameters,
                  prompt |-> BuildPrompt(request[1].vulnerability, url.str,
                                         website_content'.str)])
            /\ pc' = "generating"
            /\ UNCHANGED responses

\* lines 148-182 and 32-55: the first generate_content returns or raises;
\* on findings analyze_threat_level issues the second generate_content
GenerateReturn(reply) ==
    /\ pc = "generating"
    /\ gen_reply' = <<reply>>
    /\ UNCHANGED <<request, url, website_content, scrape_reply, assess_reply>>
    /\ LET first == FirstCall(reply)
       IN  IF first.failed
           THEN Respond(first.response) /\ UNCHANGED <<calls, generated_code>>
           ELSE /\ generated_code' = first.code
                /\ IF AssessmentIssued(first.code)
                   THEN /\ calls' = Append(calls,
                             [call |-> "assessment", model |-> DEFAULT_MODEL,
                              content |-> first.code])
                        /\ pc' = "assessing"
                        /\ UNCHANGED responses
                   ELSE /\ Respond(ComposeResult(first.code, <<UNABLE, NO_ANALYSIS>>))
                        /\ UNCHANGED calls

\* lines 55-77 and 182-190: the second generate_content returns or raises
\* and the result is composed
AssessReturn(reply) ==
    /\ pc = "assessing"
    /\ assess_reply' = <<reply>>
    /\ Respond(ComposeResult(generated_code, analyze_threat_level(reply)))
    /\ UNCHANGED <<request, url, website_content, generated_code, calls,
                   scrape_reply, gen_reply>>

Next ==
    \/ \E body \in Bodies : HandleRequest(body)
    \/ \E reply \in ScrapeReplies : ScrapeReturn(reply)
    \/ \E reply \in GenReplies : GenerateReturn(reply)
    \/ \E reply \in AssessReplies : AssessReturn(reply)

Spec == Init /\ [][Next]_vars

----------------------------------------------------------------------------
\* Vocabulary of the properties.

Done == pc = "done"
Arrived == request # <<>>
Response == responses[1]
Status == responses[1].status
IsErrorBody(r) == DOMAIN r.body = {"error"}
IsResultBody(r) == DOMAIN r.body = {"text", "analysis", "threat_level"}
CallKinds == [i \in 1..Len(calls) |-> calls[i].call]
Issued(kind) == \E i \in 1..Len(calls) : calls[i].call = kind

\* the request is a JSON object whose url is absent, null or ""
UrlAbsentNullOrEmpty ==
    /\ Arrived
    /\ request[1].kind = "object"
    /\ \/ ~request[1].url.present
       \/ request[1].url.value.type = "none"
       \/ request[1].url.value.type = "str" /\ Len(request[1].url.value.str) = 0

\* the request is a JSON object whose url is a non-empty string
UrlNonEmptyString ==
    /\ Arrived
    /\ request[1].kind = "object"
    /\ request[1].url.value.type = "str"
    /\ Len(request[1].url.value.str) > 0

\* the fetch returned a page with content
FetchGaveContent ==
    /\ scrape_reply # <<>>
    /\ scrape_reply[1].kind = "ok"
    /\ Len(scrape_reply[1].text) > 0

\* the text of a candidate of the first call: its parts' texts joined, or
\* its direct text
JoinedText(candidate) ==
    IF candidate.content.kind = "parts" THEN Concat(candidate.content.parts)
    ELSE IF candidate.content.kind = "text" THEN candidate.content.text
    ELSE <<>>

AnyRatingBlocked(candidate) ==
    \E i \in DOMAIN candidate.safety_ratings : candidate.safety_ratings[i] = TRUE

\* the four failures of the first generation call
GenRaised == gen_reply # <<>> /\ gen_reply[1].kind = "raise"
GenNoCandidates ==
    gen_reply # <<>> /\ gen_reply[1].kind = "response" /\ gen_reply[1].candidates = <<>>
GenHasTop ==
    gen_reply # <<>> /\ gen_reply[1].kind = "response" /\ gen_reply[1].candidates # <<>>
GenBlocked == GenHasTop /\ AnyRatingBlocked(gen_reply[1].candidates[1])
GenBlank ==
    /\ GenHasTop
    /\ gen_reply[1].candidates[1].content.kind # "opaque"
    /\ IsBlank(JoinedText(gen_reply[1].candidates[1]))

\* the first call returned non-blank, unblocked findings
GenGaveFindings ==
    /\ GenHasTop
    /\ ~AnyRatingBlocked(gen_reply[1].candidates[1])
    /\ gen_reply[1].candidates[1].content.kind \in {"parts", "text"}
    /\ ~IsBlank(JoinedText(gen_reply[1].candidates[1]))

Findings == JoinedText(gen_reply[1].candidates[1])

AssessRaised == assess_reply # <<>> /\ assess_reply[1].kind = "raise"

\* the second call returned a top candidate with non-blank text
AssessGaveText ==
    /\ assess_reply # <<>>
    /\ assess_reply[1].kind = "response"
    /\ assess_reply[1].ncandidates > 0
    /\ assess_reply[1].hastext
    /\ ~IsBlank(assess_reply[1].text)

\* s holds the lower-case phrase p in any letter case
HoldsAnyCase(s, p) ==
    \E i \in 1..Len(s) :
        /\ i + Len(p) - 1 <= Len(s)
        /\ \A j \in 1..Len(p) : LowerChar(s[i + j - 1]) = p[j]

----------------------------------------------------------------------------
\* C1: a request whose JSON object body has no url, or a null or empty
\* url, is answered once, with status 400 and a body holding `error`.
C1_MissingUrlIs400 ==
    UrlAbsentNullOrEmpty =>
        /\ Done
        /\ Len(responses) = 1
        /\ Status = 400
        /\ "error" \in DOMAIN Response.body
        /\ calls = <<>>

C1_Witness ==
    /\ Done
    /\ Arrived
    /\ request[1].kind = "object"
    /\ request[1].url.present
    /\ request[1].url.value = Str(<<>>)
    /\ Status = 400

\* C2 as claimed: when the first call gave findings and the second call
\* raises, the response is 200 with text = the findings, analysis = "No
\* detailed analysis available" and threat_level = "Unable to determine
\* threat level".
C2_AssessRaiseGivesSentinel ==
    (Done /\ GenGaveFindings /\ AssessRaised) =>
        /\ Status = 200
        /\ Response.body.text = Findings
        /\ Response.body.analysis = NO_ANALYSIS
        /\ Response.body.threat_level = UNABLE

\* C2 as amended: when the first call gave findings and the second call
\* raises, the response is 200 with text = the findings, threat_level =
\* "Error" and analysis = the exception's message ("No content to analyze"
\* when that message is empty).
C2_AssessRaiseGivesErrorLabel ==
    (Done /\ GenGaveFindings /\ AssessRaised) =>
        /\ Status = 200
        /\ Response.body.text = Findings
        /\ Response.body.threat_level = ERROR_LABEL
        /\ Response.body.analysis =
             IF assess_reply[1].message = <<>> THEN NO_CONTENT
             ELSE assess_reply[1].message

C2_Witness ==
    /\ Done
    /\ GenGaveFindings
    /\ AssessRaised
    /\ assess_reply[1].message # <<>>
    /\ Response.body.analysis = assess_reply[1].message

\* C3: when the fetch fails (scrape_website returns None) the response is
\* 500 and no generation call, findings or assessment, is ever issued.
C3_NoGenerationAfterFailedFetch ==
    (scrape_reply # <<>> /\ scrape_reply[1].kind = "RequestException") =>
        /\ Done
        /\ Len(responses) = 1
        /\ Status = 500
        /\ IsErrorBody(Response)
        /\ CallKinds = <<"fetch">>
        /\ gen_reply = <<>>
        /\ assess_reply = <<>>

C3_Witness ==
    /\ Done
    /\ scrape_reply # <<>>
    /\ scrape_reply[1].kind = "RequestException"
    /\ Status = 500
    /\ Response.body.error = ERR_SCRAPE

\* C4: each failure of the first generation call (it raises; no
\* candidates; a rating of the top candidate blocked; the joined text of
\* the top candidate blank) is answered 500 with an `error` message, the
\* four messages differ pairwise, and the assessment call is not issued.
C4_FirstCallFailures ==
    /\ (GenRaised \/ GenNoCandidates \/ GenBlocked \/ GenBlank) =>
          /\ Done
          /\ Len(responses) = 1
          /\ Status = 500
          /\ IsErrorBody(Response)
          /\ Len(Response.body.error) > 0
          /\ ~Issued("assessment")
          /\ assess_reply = <<>>
    /\ GenRaised => Response.body.error = ERR_GENERATE
    /\ GenNoCandidates => Response.body.error = ERR_NO_CANDIDATES
    /\ GenBlocked => Response.body.error = ERR_BLOCKED
    /\ (GenBlank /\ ~GenBlocked) => Response.body.error = ERR_EMPTY
    /\ Cardinality({ERR_GENERATE, ERR_NO_CANDIDATES, ERR_BLOCKED, ERR_EMPTY}) = 4

C4_Witness ==
    /\ Done
    /\ GenBlocked
    /\ ~GenBlank
    /\ Response.body.error = ERR_BLOCKED
    /\ CallKinds = <<"fetch", "findings">>

\* C5: when the assessment call returns a top candidate with non-blank
\* text, threat_level is "High" if that text holds "high risk" in any
\* letter case, else "Low" if it holds "low risk" in any letter case, else
\* "Medium"; the findings text plays no part.
C5_ThreatLevelFromAssessment ==
    (Done /\ AssessGaveText) =>
        /\ Status = 200
        /\ Response.body.analysis = assess_reply[1].text
        /\ Response.body.threat_level =
             IF HoldsAnyCase(assess_reply[1].text, HIGH_RISK) THEN HIGH
             ELSE IF HoldsAnyCase(assess_reply[1].text, LOW_RISK) THEN LOW
             ELSE MEDIUM

C5_Witness ==
    /\ Done
    /\ AssessGaveText
    /\ HoldsAnyCase(assess_reply[1].text, HIGH_RISK)
    /\ HoldsAnyCase(assess_reply[1].text, LOW_RISK)
    /\ assess_reply[1].text # Lower(assess_reply[1].text)
    /\ Response.body.threat_level = HIGH

\* C6: for a non-empty url string without an http:// or https:// prefix
\* the URL fetched and the URL in the prompt are "http://" followed by the
\* original string; for a url with such a prefix they are the original.
C6_UrlPrefixedOnce ==
    UrlNonEmptyString =>
        LET original == request[1].url.value.str
            prefixed == StartsWith(original, HTTP_PREFIX)
                        \/ StartsWith(original, HTTPS_PREFIX)
            expected == IF prefixed THEN original ELSE HTTP_PREFIX \o original
        IN  /\ Len(calls) >= 1
            /\ calls[1].call = "fetch"
            /\ calls[1].url = expected
            /\ \A i \in 1..Len(calls) :
                 calls[i].call = "findings" => calls[i].prompt.url = expected
            /\ expected # HTTP_PREFIX \o HTTP_PREFIX \o original

C6_Witness ==
    /\ UrlNonEmptyString
    /\ ~StartsWith(request[1].url.value.str, HTTP_PREFIX)
    /\ Issued("findings")
    /\ calls[2].prompt.url = HTTP_PREFIX \o request[1].url.value.str
    /\ calls[1].url = calls[2].prompt.url

\* C7: a body that is not valid JSON (get_json raises, or yields no
\* object) is answered with a client error, a 4xx status, not with 500.
C7_InvalidJsonIsClientError ==
    (Done /\ Arrived /\ request[1].kind \in {"invalid", "null"}) =>
        (Status >= 400 /\ Status <= 499)

\* the final response has one of the two shapes, and 200 comes only after
\* content was fetched and findings returned
ResponseShapes ==
    /\ Len(responses) <= 1
    /\ Done <=> Len(responses) = 1
    /\ Done =>
         /\ \/ Status = 200 /\ IsResultBody(Response)
            \/ Status \in {400, 500} /\ IsErrorBody(Response)
         /\ Status = 200 => (FetchGaveContent /\ GenGaveFindings)

\* C8 as claimed: every request ends with one response, 200 with exactly
\* text, analysis and threat_level, or 400 or 500 with exactly error; 400
\* only for a missing url (absent, null or ""); 200 only after content was
\* fetched and the first call returned non-blank unblocked text.
C8_ResponseShapesMissingUrl ==
    /\ ResponseShapes
    /\ (Done /\ Status = 400) => UrlAbsentNullOrEmpty

\* C8 as amended: as claimed, but 400 is the answer to every falsy url
\* of a JSON object body: absent, null, "", and also a falsy value of
\* another type such as the number 0.
C8_ResponseShapesFalsyUrl ==
    /\ ResponseShapes
    /\ (Done /\ Status = 400) =>
         /\ request[1].kind = "object"
         /\ \/ UrlAbsentNullOrEmpty
            \/ request[1].url.value.type = "int" /\ request[1].url.value.int = 0

C8_Witness ==
    /\ Done
    /\ Status = 400
    /\ request[1].url.value = Num(0)
    /\ IsErrorBody(Response)

\* C9: the outbound calls of a request are a prefix of fetch, findings,
\* assessment, each at most once; findings is issued only after the fetch
\* returned content and assessment only after the findings call returned
\* non-blank unblocked text; nothing is issued after a failure.
C9_CallsSequentialOnce ==
    /\ Len(calls) <= 3
    /\ CallKinds = SubSeq(<<"fetch", "findings", "assessment">>, 1, Len(calls))
    /\ Issued("findings") => FetchGaveContent
    /\ Issued("assessment") => (FetchGaveContent /\ GenGaveFindings)
    /\ Done => (Len(calls) <= 2 \/ assess_reply # <<>>)
    /\ (Len(responses) = 1 /\ Status # 200) =>
         LET answered == Len(scrape_reply) + Len(gen_reply) + Len(assess_reply)
         IN  Len(calls) = answered

C9_Witness ==
    /\ Done
    /\ CallKinds = <<"fetch", "findings", "assessment">>
    /\ calls[3].content = Findings

\* C10: an absent fetch result (scrape_website returned None) and a page
\* fetched with no content (it returned "") are told apart: the response
\* to the empty page is not the response to the absent result.
C10_AbsentDistinctFromEmpty ==
    (Done /\ scrape_reply # <<>> /\ scrape_reply[1].kind = "ok"
          /\ scrape_reply[1].text = <<>>) =>
        Response # ScrapeFailureResponse

====
